---- MODULE Spec2Model ----
(***************************************************************************)
(* Model of the EDMS module.  The document explorer                        *)
(* (src/src/components/edms/FileExplorer.tsx with ExplorerLayout): the     *)
(* folder tree built from the flat document list, the path/search filter   *)
(* and the breadcrumb, as one React component whose memoised values are    *)
(* recomputed on every change of their inputs.  The documents page         *)
(* (src/src/pages/EDMS.tsx) with its filters, pagination and delete, and   *)
(* the upload modal it mounts, with its interval and its timer.            *)
(*                                                                         *)
(* A JavaScript string is modelled as the sequence of its characters, so   *)
(* that split('-'), includes() and toLowerCase() are computed, not assumed.*)
(***************************************************************************)
EXTENDS Integers, Sequences, FiniteSets, TLC

\* the explorer component (FileExplorer.tsx:20, 31-34, 37, 107) and what its
\* render left behind
VARIABLES documents, selectedPath, searchQuery, folderTree, filteredDocuments, error,
          viewMode, contextMenu

\* the documents page (pages/EDMS.tsx:16-22, the toast it raised last), the
\* document store it reads and the clock it stamps new documents with
VARIABLES pageDocuments, pageSearchQuery, statusFilter, typeFilter, currentPage,
          isUploadModalOpen, permissions, toast, now

\* the upload modal (unnamed/part_002:18-21) and the invocations of
\* handleFileSelect that have not run to their end
VARIABLES isDragging, uploadProgress, isUploading, uploadedFile, calls

explorerVars ==
  <<documents, selectedPath, searchQuery, folderTree, filteredDocuments, error,
    viewMode, contextMenu>>

pageVars ==
  <<pageDocuments, pageSearchQuery, statusFilter, typeFilter, currentPage,
    isUploadModalOpen, permissions, toast, now>>

modalVars == <<isDragging, uploadProgress, isUploading, uploadedFile, calls>>

vars == <<explorerVars, pageVars, modalVars>>

(***************************************************************************)
(* String literals of the source and of the data.                          *)
(***************************************************************************)
S_all == <<"a", "l", "l">>
S_AllDocuments == <<"A", "l", "l", " ", "D", "o", "c", "u", "m", "e", "n", "t", "s">>
S_UnknownProject == <<"U", "n", "k", "n", "o", "w", "n", " ", "P", "r", "o", "j", "e", "c", "t">>
Dash == "-"

\* DocumentPhase (interfaces.ts:71)
Planning == <<"P", "l", "a", "n", "n", "i", "n", "g">>
Design == <<"D", "e", "s", "i", "g", "n">>
Execution == <<"E", "x", "e", "c", "u", "t", "i", "o", "n">>
Closure == <<"C", "l", "o", "s", "u", "r", "e">>
DocumentPhase == {Planning, Design, Execution, Closure}

\* DocumentDiscipline (interfaces.ts:72)
Civil == <<"C", "i", "v", "i", "l">>
Electrical == <<"E", "l", "e", "c", "t", "r", "i", "c", "a", "l">>
Mechanical == <<"M", "e", "c", "h", "a", "n", "i", "c", "a", "l">>
Plumbing == <<"P", "l", "u", "m", "b", "i", "n", "g">>
HVAC == <<"H", "V", "A", "C">>
General == <<"G", "e", "n", "e", "r", "a", "l">>
DocumentDiscipline == {Civil, Electrical, Mechanical, Plumbing, HVAC, General}

\* the value of an optional field that is absent (description?: string)
Undefined == <<"undefined">>

\* null, where a string or a menu is expected
Null == <<"null">>

\* null, where a File is expected (unnamed/part_002:21)
NoFile == [name |-> Null, size |-> 0]

(***************************************************************************)
(* String primitives of JavaScript used by the component.                  *)
(***************************************************************************)
UpperCase == <<"A", "B", "C", "D", "E", "F", "G", "H", "I", "J", "K", "L", "M",
               "N", "O", "P", "Q", "R", "S", "T", "U", "V", "W", "X", "Y", "Z">>
LowerCase == <<"a", "b", "c", "d", "e", "f", "g", "h", "i", "j", "k", "l", "m",
               "n", "o", "p", "q", "r", "s", "t", "u", "v", "w", "x", "y", "z">>

\* String.prototype.toLowerCase, one character
toLowerCaseChar(c) ==
  IF \E i \in 1..26 : UpperCase[i] = c
  THEN LowerCase[CHOOSE i \in 1..26 : UpperCase[i] = c]
  ELSE c

\* String.prototype.toLowerCase
toLowerCase(s) == [i \in 1..Len(s) |-> toLowerCaseChar(s[i])]

\* String.prototype.includes: q occurs in s as a contiguous run
includes(s, q) ==
  \E i \in 0..(Len(s) - Len(q)) : SubSeq(s, i + 1, i + Len(q)) = q

\* String.prototype.split with a one-character separator
RECURSIVE split(_, _)
split(s, sep) ==
  IF \A i \in 1..Len(s) : s[i] # sep
  THEN <<s>>
  ELSE LET i == CHOOSE k \in 1..Len(s) :
                  s[k] = sep /\ \A j \in 1..(k - 1) : s[j] # sep
       IN  <<SubSeq(s, 1, i - 1)>> \o split(SubSeq(s, i + 1, Len(s)), sep)

\* the least index of a set of indices, 0 when there is none: the position
\* Array.prototype.find and Map.prototype.get stop at
FirstIndex(S) == IF S = {} THEN 0 ELSE CHOOSE i \in S : \A j \in S : i <= j

(***************************************************************************)
(* Data the component is given.  The project lookup (`projects` of         *)
(* '@/mock') and the document store are outside the component; the         *)
(* documents below are the records the explorer is exercised with.  Of a   *)
(* Document only the fields the component reads are kept.                  *)
(***************************************************************************)
Proj1 == <<"p", "r", "o", "j", "-", "1">>
Proj2 == <<"p", "r", "o", "j", "-", "2">>
ProjExt == <<"e", "x", "t">>
\* a project id with two dashes, spelled like the id of the Design phase node of proj-1
ProjMulti == <<"p", "r", "o", "j", "-", "1", "-", "D", "e", "s", "i", "g", "n">>

\* import { projects } from '@/mock': ProjExt and ProjMulti are unknown to it
projects ==
  << [id |-> Proj1, name |-> <<"Z", "o", "n", "e", " ", "A", " ", "R", "o", "a", "d">>],
     [id |-> Proj2, name |-> <<"Z", "o", "n", "e", " ", "B", " ", "G", "r", "i", "d">>] >>

Doc1 ==
  [id |-> <<"d", "1">>, projectId |-> Proj1, phase |-> Design, discipline |-> Civil,
   name |-> <<"B", "r", "i", "d", "g", "e", " ", "P", "l", "a", "n">>,
   category |-> <<"D", "r", "a", "w", "i", "n", "g">>,
   tags |-> << <<"s", "t", "r", "u", "c", "t", "u", "r", "a", "l">> >>,
   description |-> Undefined]
Doc2 ==
  [id |-> <<"d", "2">>, projectId |-> Proj1, phase |-> Execution, discipline |-> Electrical,
   name |-> <<"W", "i", "r", "i", "n", "g", " ", "D", "i", "a", "g", "r", "a", "m">>,
   category |-> <<"D", "r", "a", "w", "i", "n", "g">>,
   tags |-> << >>,
   description |-> Undefined]
Doc3 ==
  [id |-> <<"d", "3">>, projectId |-> Proj1, phase |-> Design, discipline |-> Electrical,
   name |-> <<"S", "i", "t", "e", " ", "R", "e", "p", "o", "r", "t">>,
   category |-> <<"R", "e", "p", "o", "r", "t">>,
   tags |-> << <<"s", "u", "r", "v", "e", "y">>, Civil >>,
   description |-> <<"c", "i", "v", "i", "l", " ", "w", "o", "r", "k", "s">>]
Doc4 ==
  [id |-> <<"d", "4">>, projectId |-> ProjExt, phase |-> Design, discipline |-> Civil,
   name |-> <<"C", "I", "V", "I", "L", " ", "n", "o", "t", "e", "s">>,
   category |-> <<"O", "t", "h", "e", "r">>,
   tags |-> << >>,
   description |-> << >>]
Doc5 ==
  [id |-> <<"d", "5">>, projectId |-> ProjMulti, phase |-> Planning, discipline |-> General,
   name |-> <<"P", "l", "a", "n", "X">>,
   category |-> <<"R", "e", "p", "o", "r", "t">>,
   tags |-> << >>,
   description |-> Undefined]
Doc6 ==
  [id |-> <<"d", "6">>, projectId |-> Proj1, phase |-> Design, discipline |-> Civil,
   name |-> <<"P", "a", "n", "e", "l", " ", "L", "a", "y", "o", "u", "t">>,
   category |-> <<"D", "r", "a", "w", "i", "n", "g">>,
   tags |-> << <<"w", "i", "r", "i", "n", "g">> >>,
   description |-> Undefined]

DocUniverse == {Doc1, Doc2, Doc3, Doc4, Doc5, Doc6}

\* the longest document collection considered
MaxDocs == 3

\* the collections: sequences of distinct documents (a Document has a unique id)
DocSeqs ==
  {s \in UNION {[1..n -> DocUniverse] : n \in 0..MaxDocs} :
     \A i, j \in 1..Len(s) : i # j => s[i].id # s[j].id}

(***************************************************************************)
(* Folder Tree Builder: the folderTree memo (FileExplorer.tsx:37-104).     *)
(***************************************************************************)
\* projectName falling back to the raw project id
projectName_rawId(doc) ==
  LET i == FirstIndex({k \in 1..Len(projects) : projects[k].id = doc.projectId})
  IN  IF i = 0 \/ projects[i].name = << >> THEN doc.projectId ELSE projects[i].name

\* lines 52-53: projects.find((p) => p.id === doc.projectId)?.name || 'Unknown Project'
projectName(doc) ==
  LET i == FirstIndex({k \in 1..Len(projects) : projects[k].id = doc.projectId})
  IN  IF i = 0 \/ projects[i].name = << >> THEN S_UnknownProject ELSE projects[i].name

\* lines 55, 66: projectMap.has / projectMap.get, the Map being keyed by projectId
findByProjectId(nodes, projectId) ==
  FirstIndex({i \in 1..Len(nodes) : nodes[i].projectId = projectId})

\* lines 70, 86: children?.find((c) => c.name === name)
findByName(nodes, name) ==
  FirstIndex({i \in 1..Len(nodes) : nodes[i].name = name})

\* lines 55-64: the project node of the document, created on first sight.
\* projectMap is a Map in insertion order, kept as the sequence of its values.
ensureProject(projectMap, doc) ==
  IF findByProjectId(projectMap, doc.projectId) # 0
  THEN projectMap
  ELSE Append(projectMap,
              [id |-> doc.projectId, name |-> projectName(doc), type |-> "project",
               projectId |-> doc.projectId, children |-> << >>, documentCount |-> 0])

\* ensurePhase putting a new phase node in front of its siblings
ensurePhase_unshift(children, doc) ==
  IF findByName(children, doc.phase) # 0
  THEN children
  ELSE <<[id |-> doc.projectId \o <<Dash>> \o doc.phase, name |-> doc.phase,
          type |-> "phase", phase |-> doc.phase, children |-> << >>,
          documentCount |-> 0]>> \o children

\* ensurePhase creating the phase node with the type of a project node
ensurePhase_projectType(children, doc) ==
  IF findByName(children, doc.phase) # 0
  THEN children
  ELSE Append(children,
              [id |-> doc.projectId \o <<Dash>> \o doc.phase, name |-> doc.phase,
               type |-> "project", phase |-> doc.phase, children |-> << >>,
               documentCount |-> 0])

\* lines 70-82: the phase node, looked up by name among the project's children
ensurePhase(children, doc) ==
  IF findByName(children, doc.phase) # 0
  THEN children
  ELSE Append(children,
              [id |-> doc.projectId \o <<Dash>> \o doc.phase, name |-> doc.phase,
               type |-> "phase", phase |-> doc.phase, children |-> << >>,
               documentCount |-> 0])

\* ensureDiscipline with the lookup comparing the child's id, not its name
ensureDiscipline_byId(children, doc) ==
  IF FirstIndex({i \in 1..Len(children) : children[i].id = doc.discipline}) # 0
  THEN children
  ELSE Append(children,
              [id |-> doc.projectId \o <<Dash>> \o doc.phase \o <<Dash>> \o doc.discipline,
               name |-> doc.discipline, type |-> "discipline",
               discipline |-> doc.discipline, children |-> << >>, documentCount |-> 0])

\* lines 86-98: the discipline node, looked up by name among the phase's children
ensureDiscipline(children, doc) ==
  IF findByName(children, doc.discipline) # 0
  THEN children
  ELSE Append(children,
              [id |-> doc.projectId \o <<Dash>> \o doc.phase \o <<Dash>> \o doc.discipline,
               name |-> doc.discipline, type |-> "discipline",
               discipline |-> doc.discipline, children |-> << >>, documentCount |-> 0])

\* countInProject with the increment done only for a node just created
countInProject_onCreate(projectNode) ==
  IF projectNode.documentCount = 0
  THEN [projectNode EXCEPT !.documentCount = 1]
  ELSE projectNode

\* line 67: projectNode.documentCount = (projectNode.documentCount || 0) + 1
countInProject(projectNode) == [projectNode EXCEPT !.documentCount = @ + 1]

\* line 83: phaseNode.documentCount = (phaseNode.documentCount || 0) + 1
countInPhase(phaseNode) == [phaseNode EXCEPT !.documentCount = @ + 1]

\* countInDiscipline assigning 1 where it should add 1
countInDiscipline_setOne(disciplineNode) == [disciplineNode EXCEPT !.documentCount = 1]

\* line 99: disciplineNode.documentCount = (disciplineNode.documentCount || 0) + 1
countInDiscipline(disciplineNode) == [disciplineNode EXCEPT !.documentCount = @ + 1]

\* lines 51-100: the body of documents.forEach((doc) => ...)
forEachDoc(projectMap, doc) ==
  LET pm       == ensureProject(projectMap, doc)
      pi       == findByProjectId(pm, doc.projectId)
      phases   == ensurePhase(pm[pi].children, doc)
      hi       == findByName(phases, doc.phase)
      discs    == ensureDiscipline(phases[hi].children, doc)
      di       == findByName(discs, doc.discipline)
      discNode == countInDiscipline(discs[di])
      phaseNode   == [countInPhase(phases[hi]) EXCEPT
                        !.children = [discs EXCEPT ![di] = discNode]]
      projectNode == [countInProject(pm[pi]) EXCEPT
                        !.children = [phases EXCEPT ![hi] = phaseNode]]
  IN  [pm EXCEPT ![pi] = projectNode]

\* lines 49-100: the projectMap after the pass over the documents
RECURSIVE groupByProject(_, _)
groupByProject(docs, projectMap) ==
  IF docs = << >>
  THEN projectMap
  ELSE groupByProject(Tail(docs), forEachDoc(projectMap, Head(docs)))

\* rootNode with the count started at 0 like every other node
rootNode_zero(docs) ==
  [id |-> S_all, name |-> S_AllDocuments, type |-> "project",
   documentCount |-> 0, children |-> << >>]

\* lines 38-46: the synthetic root
rootNode(docs) ==
  [id |-> S_all, name |-> S_AllDocuments, type |-> "project",
   documentCount |-> Len(docs), children |-> << >>]

\* buildTree returning no node at all for an empty collection
buildTree_noRootWhenEmpty(docs) ==
  IF docs = << >>
  THEN << >>
  ELSE << [rootNode(docs) EXCEPT !.children = groupByProject(docs, << >>)] >>

\* lines 37-104: the value of the folderTree memo for a document collection
buildTree(docs) ==
  << [rootNode(docs) EXCEPT !.children = groupByProject(docs, << >>)] >>

(***************************************************************************)
(* Path Resolver and Filter/Search Engine: the filteredDocuments memo      *)
(* (FileExplorer.tsx:107-144).                                             *)
(***************************************************************************)
\* filterByPathId with the token counts of the phase and discipline tests off by one
filterByPathId_offByOne(docs, pathId) ==
  IF includes(pathId, <<Dash>>)
  THEN LET parts     == split(pathId, Dash)
           projectId == parts[1] \o <<Dash>> \o parts[2]
           byProject == SelectSeq(docs, LAMBDA d : d.projectId = projectId)
           byPhase   == IF Len(parts) > 3
                        THEN SelectSeq(byProject, LAMBDA d : d.phase = parts[3])
                        ELSE byProject
       IN  IF Len(parts) > 4
           THEN SelectSeq(byPhase, LAMBDA d : d.discipline = parts[4])
           ELSE byPhase
  ELSE SelectSeq(docs, LAMBDA d : d.projectId = pathId)

\* filterByPathId rejecting an id of more than four tokens as matching nothing
filterByPathId_rejectsLongId(docs, pathId) ==
  IF includes(pathId, <<Dash>>)
  THEN LET parts     == split(pathId, Dash)
           projectId == parts[1] \o <<Dash>> \o parts[2]
           byProject == SelectSeq(docs, LAMBDA d : d.projectId = projectId)
           byPhase   == IF Len(parts) >= 3
                        THEN SelectSeq(byProject, LAMBDA d : d.phase = parts[3])
                        ELSE byProject
       IN  IF Len(parts) > 4
           THEN << >>
           ELSE IF Len(parts) = 4
           THEN SelectSeq(byPhase, LAMBDA d : d.discipline = parts[4])
           ELSE byPhase
  ELSE SelectSeq(docs, LAMBDA d : d.projectId = pathId)

\* lines 113-128: the restriction decoded from a path id other than 'all'
filterByPathId(docs, pathId) ==
  IF includes(pathId, <<Dash>>)
  THEN LET parts     == split(pathId, Dash)
           projectId == parts[1] \o <<Dash>> \o parts[2]
           byProject == SelectSeq(docs, LAMBDA d : d.projectId = projectId)
           byPhase   == IF Len(parts) >= 3
                        THEN SelectSeq(byProject, LAMBDA d : d.phase = parts[3])
                        ELSE byProject
       IN  IF Len(parts) >= 4
           THEN SelectSeq(byPhase, LAMBDA d : d.discipline = parts[4])
           ELSE byPhase
  ELSE SelectSeq(docs, LAMBDA d : d.projectId = pathId)

\* filterByPath without the test for the root id
filterByPath_noRoot(docs, path) == filterByPathId(docs, path[1])

\* lines 111-113: for an empty path selectedPath[0] is undefined, which passes
\* the test !== 'all', and undefined.includes('-') throws a TypeError
throwsTypeError(path) == Len(path) = 0

\* lines 111-129: filter by selected path (selectedPath[0] is path[1] here)
filterByPath(docs, path) ==
  IF path[1] # S_all THEN filterByPathId(docs, path[1]) ELSE docs

\* matchesSearch with a tag matching only when it equals the query
matchesSearch_tagEquals(d, query) ==
  \/ includes(toLowerCase(d.name), query)
  \/ \E i \in 1..Len(d.tags) : toLowerCase(d.tags[i]) = query
  \/ includes(toLowerCase(d.category), query)
  \/ (d.description # Undefined /\ includes(toLowerCase(d.description), query))

\* lines 135-139: the search predicate, query already lower-cased
matchesSearch(d, query) ==
  \/ includes(toLowerCase(d.name), query)
  \/ \E i \in 1..Len(d.tags) : includes(toLowerCase(d.tags[i]), query)
  \/ includes(toLowerCase(d.category), query)
  \/ (d.description # Undefined /\ includes(toLowerCase(d.description), query))

\* filterBySearch with the query compared as typed, not lower-cased
filterBySearch_rawQuery(docs, query0) ==
  IF query0 # << >>
  THEN SelectSeq(docs, LAMBDA d : matchesSearch(d, query0))
  ELSE docs

\* filterBySearch that loses the first match
filterBySearch_skipFirst(docs, query0) ==
  IF query0 # << >>
  THEN LET query == toLowerCase(query0)
           kept  == SelectSeq(docs, LAMBDA d : matchesSearch(d, query))
       IN  IF kept = << >> THEN kept ELSE Tail(kept)
  ELSE docs

\* JavaScript's whitespace, as far as the queries here have any
IsBlank(s) == \A i \in 1..Len(s) : s[i] = " "

\* filterBySearch with the query trimmed before the test for the empty query
filterBySearch_trimmed(docs, query0) ==
  IF ~IsBlank(query0)
  THEN LET query == toLowerCase(query0)
       IN  SelectSeq(docs, LAMBDA d : matchesSearch(d, query))
  ELSE docs

\* lines 132-141: filter by search
filterBySearch(docs, query0) ==
  IF query0 # << >>
  THEN LET query == toLowerCase(query0)
       IN  SelectSeq(docs, LAMBDA d : matchesSearch(d, query))
  ELSE docs

Reverse(seq) == [i \in 1..Len(seq) |-> seq[Len(seq) + 1 - i]]

\* applyFilter returning the newest document first
applyFilter_reversed(docs, path, query0) ==
  Reverse(filterBySearch(filterByPath(docs, path), query0))

\* applyFilter with the search run over the whole collection, not over the
\* documents the path step left
applyFilter_searchAll(docs, path, query0) ==
  IF query0 # << >> THEN filterBySearch(docs, query0) ELSE filterByPath(docs, path)

\* lines 107-144: the value of the filteredDocuments memo
applyFilter(docs, path, query0) == filterBySearch(filterByPath(docs, path), query0)

(***************************************************************************)
(* The inputs of navigation and search.                                    *)
(***************************************************************************)
\* a path id with a fifth token, one with an empty third token, one matching nothing
IdFiveTokens == Proj1 \o <<Dash>> \o Design \o <<Dash>> \o Civil \o <<Dash>> \o <<"x">>
IdTrailingDash == Proj1 \o <<Dash>>
IdNoSuch == <<"n", "o", "n", "e">>

\* the path ids considered: the root, three project ids (ProjMulti reads the
\* same as the phase node's id), a phase node, a discipline node, and the
\* three ids above
PathIds ==
  {S_all, Proj1, ProjExt, ProjMulti,
   Proj1 \o <<Dash>> \o Design,
   Proj1 \o <<Dash>> \o Design \o <<Dash>> \o Civil,
   IdFiveTokens, IdTrailingDash, IdNoSuch}

Q_wiring == <<"w", "i", "r", "i", "n", "g">>
Q_civil == <<"c", "i", "v", "i", "l">>
Q_CIVIL == <<"C", "I", "V", "I", "L">>
Q_struct == <<"s", "t", "r", "u", "c", "t">>
Q_space == <<" ">>

\* the search queries considered
Queries == {<< >>, Q_wiring, Q_civil, Q_CIVIL, Q_struct, Q_space}

(***************************************************************************)
(* The component.  Every event is followed by a render in which a memo is   *)
(* recomputed when one of its dependencies changed: folderTree depends on  *)
(* [documents] (line 104), filteredDocuments on [documents, selectedPath,  *)
(* searchQuery] (line 144).                                                *)
(***************************************************************************)
\* the documents page as it mounts (pages/EDMS.tsx:18-22) over an empty store,
\* with a user who holds no permission and no toast shown
pageAtRest ==
  /\ pageDocuments = << >>
  /\ pageSearchQuery = << >>
  /\ statusFilter = S_all
  /\ typeFilter = S_all
  /\ currentPage = 1
  /\ isUploadModalOpen = FALSE
  /\ permissions = {}
  /\ toast = "none"
  /\ now = 0

\* the upload modal as it mounts (unnamed/part_002:18-21), no file chosen yet
modalAtRest ==
  /\ isDragging = FALSE
  /\ uploadProgress = 0
  /\ isUploading = FALSE
  /\ uploadedFile = NoFile
  /\ calls = << >>

\* lines 31-34 and the first render: the documents prop is any collection
Init ==
  /\ documents \in DocSeqs
  /\ selectedPath = <<S_all>>
  /\ searchQuery = << >>
  /\ folderTree = buildTree(documents)
  /\ filteredDocuments = applyFilter(documents, selectedPath, searchQuery)
  /\ error = "none"
  /\ viewMode = "list"
  /\ contextMenu = Null
  /\ pageAtRest
  /\ modalAtRest

\* onPathChange with a filter that removes the rejected documents from the
\* array it was given instead of building a new one
onPathChange_filtersInPlace(path) ==
  /\ error = "none"
  /\ selectedPath' = path
  /\ UNCHANGED <<searchQuery, folderTree>>
  /\ UNCHANGED <<viewMode, contextMenu, pageVars, modalVars>>
  /\ IF throwsTypeError(path)
     THEN error' = "TypeError" /\ UNCHANGED <<documents, filteredDocuments>>
     ELSE /\ filteredDocuments' = applyFilter(documents, path, searchQuery)
          /\ documents' = filteredDocuments'
          /\ UNCHANGED error

\* line 176: onPathChange={setSelectedPath}.  When the render that follows
\* throws, nothing is committed and the component is gone.
onPathChange(path) ==
  /\ error = "none"
  /\ selectedPath' = path
  /\ UNCHANGED <<documents, searchQuery, folderTree>>
  /\ UNCHANGED <<viewMode, contextMenu, pageVars, modalVars>>
  /\ IF throwsTypeError(path)
     THEN error' = "TypeError" /\ UNCHANGED filteredDocuments
     ELSE /\ filteredDocuments' = applyFilter(documents, path, searchQuery)
          /\ UNCHANGED error

\* ExplorerLayout's TreeNode (unnamed/part_001:27): nodePath = [...parentPath, node.id],
\* for every node below the given nodes
RECURSIVE nodePaths(_, _)
nodePaths(nodes, parentPath) ==
  IF nodes = << >>
  THEN {}
  ELSE LET nodePath == Append(parentPath, Head(nodes).id)
       IN  {nodePath} \cup nodePaths(Head(nodes).children, nodePath)
                      \cup nodePaths(Tail(nodes), parentPath)

\* TreeNode.handleFolderClick (unnamed/part_001:37-39): onSelect(nodePath)
handleFolderClick(nodePath) ==
  /\ nodePath \in nodePaths(folderTree, << >>)
  /\ onPathChange(nodePath)

\* findNodeName visiting the nodes level by level: the siblings before their children
RECURSIVE findNodeName_siblingsFirst(_, _)
findNodeName_siblingsFirst(nodes, targetId) ==
  LET hit == FirstIndex({i \in 1..Len(nodes) : nodes[i].id = targetId})
      below[i \in 0..Len(nodes)] ==
        IF i = 0 THEN << >> ELSE below[i - 1] \o nodes[i].children
  IN  IF nodes = << >> THEN Null
      ELSE IF hit # 0 THEN nodes[hit].name
      ELSE findNodeName_siblingsFirst(below[Len(nodes)], targetId)

\* findNodeName (unnamed/part_001:209-218): the name of the first node with the
\* target id, a node before its children, its children before its next
\* sibling.  `if (found)` passes over null and over the empty string.
RECURSIVE findNodeName(_, _)
findNodeName(nodes, targetId) ==
  IF nodes = << >>
  THEN Null
  ELSE LET node == Head(nodes)
           found == findNodeName(node.children, targetId)
       IN  IF node.id = targetId THEN node.name
           ELSE IF found # Null /\ found # << >> THEN found
           ELSE findNodeName(Tail(nodes), targetId)

\* line 219: findNodeName(folderTree, id) || id
breadcrumbLabel(id) ==
  LET found == findNodeName(folderTree, id)
  IN  IF found # Null /\ found # << >> THEN found ELSE id

\* breadcrumbPath (unnamed/part_001:206-221), as the render computes it from
\* the selectedPath and folderTree props
breadcrumbPath ==
  IF Len(selectedPath) > 0 /\ selectedPath[1] # S_all
  THEN [i \in 1..Len(selectedPath) |-> breadcrumbLabel(selectedPath[i])]
  ELSE << >>

\* Array.prototype.slice(0, end) for end >= 0
slice(s, end) == SubSeq(s, 1, IF end < Len(s) THEN end ELSE Len(s))

\* the address bar offers its root (index 0) and one item per label of the
\* path it is given, item i carrying index i
AddressBarIndices == 0..Len(breadcrumbPath)

\* handleBreadcrumbClick with the root treated like every other item
handleBreadcrumbClick_sliceOnly(index) ==
  onPathChange(slice(selectedPath, index))

\* handleBreadcrumbClick (unnamed/part_001:223-231)
handleBreadcrumbClick(index) ==
  IF index = 0
  THEN onPathChange(<<S_all>>)
  ELSE onPathChange(slice(selectedPath, index))

\* line 182: onViewModeChange={setViewMode}
onViewModeChange(mode) ==
  /\ error = "none"
  /\ viewMode' = mode
  /\ UNCHANGED <<documents, selectedPath, searchQuery, folderTree, filteredDocuments,
                 error, contextMenu, pageVars, modalVars>>

\* handleContextMenu (lines 146-165) on a document of the grid: the menu is
\* recorded by the document it is for (its x and y only place it on the screen)
handleContextMenu(doc) ==
  /\ error = "none"
  /\ \E i \in 1..Len(filteredDocuments) : filteredDocuments[i] = doc
  /\ contextMenu' = doc.id
  /\ UNCHANGED <<documents, selectedPath, searchQuery, folderTree, filteredDocuments,
                 error, viewMode, pageVars, modalVars>>

\* line 187: onCloseContextMenu={() => setContextMenu(null)}
onCloseContextMenu ==
  /\ error = "none"
  /\ contextMenu # Null
  /\ contextMenu' = Null
  /\ UNCHANGED <<documents, selectedPath, searchQuery, folderTree, filteredDocuments,
                 error, viewMode, pageVars, modalVars>>

\* onSearchChange with searchQuery missing from the dependency list of the
\* filteredDocuments memo: the memo is not recomputed
onSearchChange_stale(value) ==
  /\ error = "none"
  /\ searchQuery' = value
  /\ UNCHANGED <<documents, selectedPath, folderTree, error, filteredDocuments>>
  /\ UNCHANGED <<viewMode, contextMenu, pageVars, modalVars>>

\* onSearchChange that also goes back to the root, as the search box of the
\* documents page goes back to the first page
onSearchChange_resetsPath(value) ==
  /\ error = "none"
  /\ searchQuery' = value
  /\ selectedPath' = <<S_all>>
  /\ UNCHANGED <<documents, folderTree, error>>
  /\ UNCHANGED <<viewMode, contextMenu, pageVars, modalVars>>
  /\ filteredDocuments' = applyFilter(documents, <<S_all>>, value)

\* line 183: onSearchChange={setSearchQuery}
onSearchChange(value) ==
  /\ error = "none"
  /\ searchQuery' = value
  /\ UNCHANGED <<documents, selectedPath, folderTree, error>>
  /\ UNCHANGED <<viewMode, contextMenu, pageVars, modalVars>>
  /\ filteredDocuments' = applyFilter(documents, selectedPath, value)

\* the store appends a document and the documents prop changes
addDocument(doc) ==
  /\ error = "none"
  /\ Len(documents) < MaxDocs
  /\ \A i \in 1..Len(documents) : documents[i].id # doc.id
  /\ documents' = Append(documents, doc)
  /\ UNCHANGED <<selectedPath, searchQuery, error>>
  /\ UNCHANGED <<viewMode, contextMenu, pageVars, modalVars>>
  /\ folderTree' = buildTree(documents')
  /\ filteredDocuments' = applyFilter(documents', selectedPath, searchQuery)

\* the store removes the document with the given id and the documents prop changes
deleteDocument(id) ==
  /\ error = "none"
  /\ \E i \in 1..Len(documents) : documents[i].id = id
  /\ documents' = SelectSeq(documents, LAMBDA d : d.id # id)
  /\ UNCHANGED <<selectedPath, searchQuery, error>>
  /\ UNCHANGED <<viewMode, contextMenu, pageVars, modalVars>>
  /\ folderTree' = buildTree(documents')
  /\ filteredDocuments' = applyFilter(documents', selectedPath, searchQuery)

Next ==
  \/ \E id \in PathIds : onPathChange(<<id>>)
  \/ \E value \in Queries : onSearchChange(value)
  \/ \E doc \in DocUniverse : addDocument(doc)
  \/ \E doc \in DocUniverse : deleteDocument(doc.id)

Spec == Init /\ [][Next]_vars

\* the component driven with any path its onPathChange accepts, the empty one included
NextAnyPath ==
  \/ \E id \in PathIds : onPathChange(<<id>>)
  \/ onPathChange(<< >>)
  \/ \E value \in Queries : onSearchChange(value)
  \/ \E doc \in DocUniverse : addDocument(doc)
  \/ \E doc \in DocUniverse : deleteDocument(doc.id)

SpecAnyPath == Init /\ [][NextAnyPath]_vars

\* the component driven through the explorer only: clicks on the folder tree
\* and on the address bar, keystrokes in the search box, and changes of the store
NextUI ==
  \/ \E nodePath \in nodePaths(folderTree, << >>) : handleFolderClick(nodePath)
  \/ \E index \in AddressBarIndices : handleBreadcrumbClick(index)
  \/ \E value \in Queries : onSearchChange(value)
  \/ \E doc \in DocUniverse : addDocument(doc)
  \/ \E doc \in DocUniverse : deleteDocument(doc.id)

SpecUI == Init /\ [][NextUI]_vars

\* paths of several ids, as a caller of onPathChange may pass them: a project,
\* phase and discipline chain, a path through an id of no node, and the path
\* of a click on the project node
NavPaths ==
  { <<S_all>>, <<Proj1>>, <<ProjExt>>, <<ProjMulti>>,
    <<Proj1, Proj1 \o <<Dash>> \o Design, Proj1 \o <<Dash>> \o Design \o <<Dash>> \o Civil>>,
    <<IdNoSuch, Proj1>>, <<S_all, Proj1>> }

\* the queries typed in that setting
NavQueries == {<< >>, Q_civil}

\* the explorer navigated by paths given to onPathChange and by the address bar
NextNav ==
  \/ \E path \in NavPaths : onPathChange(path)
  \/ \E index \in AddressBarIndices : handleBreadcrumbClick(index)
  \/ \E value \in NavQueries : onSearchChange(value)
  \/ \E doc \in DocUniverse : addDocument(doc)
  \/ \E doc \in DocUniverse : deleteDocument(doc.id)

SpecNav == Init /\ [][NextNav]_vars

\* the paths given to onPathChange when every kind of event is considered
EventPaths == { <<S_all>>, <<Proj1>>, <<IdNoSuch, Proj1>> }

\* the explorer with every event of ExplorerLayout's props (FileExplorer.tsx:167-189)
NextEvents ==
  \/ \E path \in EventPaths : onPathChange(path)
  \/ \E index \in AddressBarIndices : handleBreadcrumbClick(index)
  \/ \E value \in NavQueries : onSearchChange(value)
  \/ \E mode \in {"grid", "list"} : onViewModeChange(mode)
  \/ \E doc \in DocUniverse : handleContextMenu(doc)
  \/ onCloseContextMenu
  \/ \E doc \in DocUniverse : addDocument(doc)
  \/ \E doc \in DocUniverse : deleteDocument(doc.id)

SpecEvents == Init /\ [][NextEvents]_vars

(***************************************************************************)
(* Properties of the folder tree.                                          *)
(***************************************************************************)
root == folderTree[1]

RECURSIVE SumCounts(_)
SumCounts(nodes) ==
  IF nodes = << >> THEN 0 ELSE Head(nodes).documentCount + SumCounts(Tail(nodes))

\* the number of documents of the collection that satisfy P
CountDocs(P(_)) == Cardinality({i \in 1..Len(documents) : P(documents[i])})

\* C1: the tree has exactly one root node, with id "all" and type project, and
\* the root's documentCount is the number of documents of the collection.
C1_RootCountsAllDocuments ==
  /\ Len(folderTree) = 1
  /\ root.id = S_all
  /\ root.type = "project"
  /\ root.documentCount = Len(documents)

C1_Witness == Len(documents) = 3 /\ root.documentCount = 3

\* C2: the documentCounts of the root's immediate children (the project nodes)
\* add up to the root's documentCount.
C2_ProjectCountsSumToRoot == SumCounts(root.children) = root.documentCount

C2_Witness ==
  /\ Len(root.children) = 2
  /\ \E i \in 1..2 : root.children[i].documentCount = 2

\* C3: every node's documentCount is the number of documents that resolve into
\* it (project: same projectId; phase: same projectId and phase; discipline:
\* same projectId, phase and discipline), and every document resolves into
\* exactly one node at each of the three levels.
C3_CountsAreDocumentsResolved ==
  /\ root.documentCount = CountDocs(LAMBDA d : TRUE)
  /\ \A i \in 1..Len(root.children) :
       LET pn == root.children[i] IN
       /\ pn.documentCount = CountDocs(LAMBDA d : d.projectId = pn.projectId)
       /\ \A j \in 1..Len(pn.children) :
            LET hn == pn.children[j] IN
            /\ hn.documentCount =
                 CountDocs(LAMBDA d : d.projectId = pn.projectId /\ d.phase = hn.phase)
            /\ \A k \in 1..Len(hn.children) :
                 LET dn == hn.children[k] IN
                 dn.documentCount =
                   CountDocs(LAMBDA d : /\ d.projectId = pn.projectId
                                        /\ d.phase = hn.phase
                                        /\ d.discipline = dn.discipline)
  /\ \A n \in 1..Len(documents) :
       LET d  == documents[n]
           ps == {i \in 1..Len(root.children) : root.children[i].projectId = d.projectId}
       IN  /\ Cardinality(ps) = 1
           /\ LET pn == root.children[CHOOSE i \in ps : TRUE]
                  hs == {j \in 1..Len(pn.children) : pn.children[j].phase = d.phase}
              IN  /\ Cardinality(hs) = 1
                  /\ LET hn == pn.children[CHOOSE j \in hs : TRUE]
                     IN  Cardinality({k \in 1..Len(hn.children) :
                                        hn.children[k].discipline = d.discipline}) = 1

\* a project with two phases, one of them holding two documents of one discipline
C3_Witness ==
  /\ Len(documents) = 3
  /\ Len(root.children) = 1
  /\ root.children[1].documentCount = 3
  /\ Len(root.children[1].children) = 2
  /\ \E j \in 1..2 :
       /\ root.children[1].children[j].documentCount = 2
       /\ Len(root.children[1].children[j].children) = 1
       /\ root.children[1].children[j].children[1].documentCount = 2

(***************************************************************************)
(* Properties of the filter.                                               *)
(***************************************************************************)
pathId0 == selectedPath[1]

\* the project ids occurring in the collection
ProjectIdsOf(docs) == {docs[i].projectId : i \in 1..Len(docs)}

\* the documents of the collection that satisfy P, in the collection's order
DocsWhere(P(_)) == SelectSeq(documents, P)

\* C4: with selected path ['all'] and the empty query the filter returns the
\* collection itself, same documents in the same order.
C4_AllAndEmptyQueryIsIdentity ==
  (selectedPath = <<S_all>> /\ searchQuery = << >>) => filteredDocuments = documents

C4_Witness ==
  /\ selectedPath = <<S_all>>
  /\ searchQuery = << >>
  /\ Len(documents) = 3
  /\ filteredDocuments = documents

\* C5: for a project id p occurring as the projectId of a document of the
\* collection, the path [p] with the empty query returns exactly the documents
\* whose projectId is p.
C5_ProjectPathSelectsProject ==
  (/\ Len(selectedPath) = 1
   /\ pathId0 \in ProjectIdsOf(documents)
   /\ searchQuery = << >>)
  => filteredDocuments = DocsWhere(LAMBDA d : d.projectId = pathId0)

(***************************************************************************)
(* The decoding rule of a path id, stated from the positions of its        *)
(* dashes: token k lies between dash k-1 and dash k.                       *)
(***************************************************************************)
DashPositions(id) == {i \in 1..Len(id) : id[i] = Dash}

NumTokens(id) == Cardinality(DashPositions(id)) + 1

\* the position of the k-th dash; 0 for k = 0 and Len(id) + 1 past the last dash
DashAt(id, k) ==
  IF k = 0 THEN 0
  ELSE IF k > Cardinality(DashPositions(id)) THEN Len(id) + 1
  ELSE CHOOSE i \in DashPositions(id) :
         Cardinality({j \in DashPositions(id) : j < i}) = k - 1

Token(id, k) == SubSeq(id, DashAt(id, k - 1) + 1, DashAt(id, k) - 1)

\* the restrictions a path id other than 'all' stands for
Restricts(id, d) ==
  IF DashPositions(id) # {}
  THEN /\ d.projectId = Token(id, 1) \o <<Dash>> \o Token(id, 2)
       /\ NumTokens(id) >= 3 => d.phase = Token(id, 3)
       /\ NumTokens(id) >= 4 => d.discipline = Token(id, 4)
  ELSE d.projectId = id

\* C6: a path id with a dash is split on '-': tokens 1 and 2 joined by '-' are
\* the required projectId, token 3 if present the required phase, token 4 if
\* present the required discipline; an id without a dash is the required
\* projectId.  The path-filtered result is exactly the documents satisfying
\* every restriction present, so ['proj-1-Design-Civil'] returns exactly the
\* documents of proj-1, phase Design, discipline Civil.
C6_PathIdDecoding ==
  (pathId0 # S_all /\ searchQuery = << >>) =>
    /\ filteredDocuments = DocsWhere(LAMBDA d : Restricts(pathId0, d))
    /\ pathId0 = Proj1 \o <<Dash>> \o Design \o <<Dash>> \o Civil =>
         filteredDocuments =
           DocsWhere(LAMBDA d : /\ d.projectId = Proj1
                                /\ d.phase = Design
                                /\ d.discipline = Civil)

\* ['proj-1-Design-Civil'] over a collection holding a Civil and an Electrical
\* document of proj-1/Design and a document of another phase
C6_Witness ==
  /\ selectedPath = <<Proj1 \o <<Dash>> \o Design \o <<Dash>> \o Civil>>
  /\ searchQuery = << >>
  /\ documents = <<Doc3, Doc1, Doc2>>
  /\ filteredDocuments = <<Doc1>>

\* the documents left by the path step alone
pathFiltered == filterByPath(documents, selectedPath)

\* d is one of the documents shown
Retained(d) == \E i \in 1..Len(filteredDocuments) : filteredDocuments[i] = d

\* the query is a tag of d, compared case-insensitively
TagEqualsQuery(d, q) ==
  \E i \in 1..Len(d.tags) : toLowerCase(d.tags[i]) = toLowerCase(q)

\* the query occurs inside a tag of d, compared case-insensitively
TagContainsQuery(d, q) ==
  \E i \in 1..Len(d.tags) : includes(toLowerCase(d.tags[i]), toLowerCase(q))

\* the query occurs in the name, the category or the description of d
FieldContainsQuery(d, q) ==
  \/ includes(toLowerCase(d.name), toLowerCase(q))
  \/ includes(toLowerCase(d.category), toLowerCase(q))
  \/ (d.description # Undefined /\ includes(toLowerCase(d.description), toLowerCase(q)))

\* C7 as stated: with a non-empty query a path-filtered document is retained
\* iff the lower-cased query is a substring of its lower-cased name, category
\* or description, or equals one of its lower-cased tags.
C7_TagMustEqualQuery ==
  searchQuery # << >> =>
    \A i \in 1..Len(pathFiltered) :
      Retained(pathFiltered[i]) <=>
        (FieldContainsQuery(pathFiltered[i], searchQuery)
           \/ TagEqualsQuery(pathFiltered[i], searchQuery))

\* C7 amended: with a non-empty query a path-filtered document is retained iff
\* the lower-cased query is a substring of its lower-cased name, category or
\* description, or a substring of one of its lower-cased tags.
C7_SearchMatchesSubstrings ==
  searchQuery # << >> =>
    \A i \in 1..Len(pathFiltered) :
      Retained(pathFiltered[i]) <=>
        (FieldContainsQuery(pathFiltered[i], searchQuery)
           \/ TagContainsQuery(pathFiltered[i], searchQuery))

\* "struct" retains the document tagged "structural" and drops another one
C7_Witness ==
  /\ searchQuery = Q_struct
  /\ Len(pathFiltered) >= 2
  /\ filteredDocuments = <<Doc1>>
  /\ ~FieldContainsQuery(Doc1, Q_struct)

\* C8: filtering the result again with the same path and query returns the
\* same result.
C8_FilterIdempotent ==
  applyFilter(filteredDocuments, selectedPath, searchQuery) = filteredDocuments

\* a project path and a query that together keep some documents and drop others
C8_Witness ==
  /\ selectedPath = <<Proj1>>
  /\ searchQuery = Q_wiring
  /\ Len(documents) = 3
  /\ Len(filteredDocuments) = 2

\* a and b are the same string up to the case of their letters
DiffersOnlyInCase(a, b) ==
  /\ Len(a) = Len(b)
  /\ \A i \in 1..Len(a) :
       \/ a[i] = b[i]
       \/ \E k \in 1..26 : {a[i], b[i]} = {UpperCase[k], LowerCase[k]}

\* C9: two queries that differ only in letter case give identical results.
C9_SearchCaseInsensitive ==
  \A other \in Queries :
    DiffersOnlyInCase(other, searchQuery) =>
      applyFilter(documents, selectedPath, other) = filteredDocuments

\* "CIVIL" typed in capitals finds documents, and "civil" is among the queries
C9_Witness ==
  /\ searchQuery = Q_CIVIL
  /\ DiffersOnlyInCase(Q_civil, searchQuery)
  /\ Len(filteredDocuments) >= 2
  /\ Len(filteredDocuments) < Len(documents)

\* r is obtained from s by deleting elements: an increasing choice of positions
IsSubsequence(r, s) ==
  \E f \in [1..Len(r) -> 1..Len(s)] :
    /\ \A i, j \in 1..Len(r) : i < j => f[i] < f[j]
    /\ \A i \in 1..Len(r) : r[i] = s[f[i]]

\* C10: the result is a subsequence of the collection: every returned document
\* is a document of the collection, in the collection's relative order, none
\* twice, and the result is never longer than the collection.
C10_ResultIsSubsequence ==
  /\ IsSubsequence(filteredDocuments, documents)
  /\ \A i, j \in 1..Len(filteredDocuments) :
       i # j => filteredDocuments[i].id # filteredDocuments[j].id
  /\ Len(filteredDocuments) <= Len(documents)

\* the first and the last of three documents are kept, the middle one dropped
C10_Witness ==
  /\ Len(documents) = 3
  /\ pathId0 # S_all
  /\ filteredDocuments = <<documents[1], documents[3]>>

\* d is one of the documents of the sequence
Among(d, docs) == \E i \in 1..Len(docs) : docs[i] = d

\* C11: path filtering and search are combined with AND: a document is in
\* filter(D, p, q) exactly when it is in filter(D, p, '') and in
\* filter(D, ['all'], q); the empty query returns the path-filtered set unchanged.
C11_PathAndSearchConjoined ==
  /\ \A i \in 1..Len(documents) :
       Retained(documents[i]) <=>
         /\ Among(documents[i], applyFilter(documents, selectedPath, << >>))
         /\ Among(documents[i], applyFilter(documents, <<S_all>>, searchQuery))
  /\ searchQuery = << >> => filteredDocuments = pathFiltered

\* of three documents one passes the path only, one the query only, one both
C11_Witness ==
  /\ documents = <<Doc1, Doc3, Doc4>>
  /\ selectedPath = <<Proj1>>
  /\ searchQuery = Q_civil
  /\ filteredDocuments = <<Doc3>>

\* C12: tree building and filtering are total: for every collection, every
\* selected path (the empty path and paths matching no node included) and every
\* query they return a result and never reach an error state.
C12_NoErrorState == error = "none"

\* C13: an empty document collection yields only the root node, with
\* documentCount 0 and no children.
C13_EmptyCollectionGivesBareRoot ==
  documents = << >> =>
    /\ Len(folderTree) = 1
    /\ root.id = S_all
    /\ root.documentCount = 0
    /\ root.children = << >>

C13_Witness ==
  /\ documents = << >>
  /\ Len(folderTree) = 1
  /\ root.children = << >>

\* the ids known to the project lookup
KnownProjectIds == {projects[i].id : i \in 1..Len(projects)}

\* C14: a document whose projectId is not in the project lookup still gets a
\* project node with that projectId as id and the name "Unknown Project", with
\* its phase and discipline nodes and their counts built as for any document.
C14_UnknownProjectStillGetsNode ==
  \A n \in 1..Len(documents) :
    LET d == documents[n] IN
    d.projectId \notin KnownProjectIds =>
      \E i \in 1..Len(root.children) :
        LET pn == root.children[i] IN
        /\ pn.id = d.projectId
        /\ pn.name = S_UnknownProject
        /\ pn.type = "project"
        /\ pn.documentCount = CountDocs(LAMBDA x : x.projectId = d.projectId)
        /\ \E j \in 1..Len(pn.children) :
             LET hn == pn.children[j] IN
             /\ hn.id = d.projectId \o <<Dash>> \o d.phase
             /\ hn.name = d.phase
             /\ hn.documentCount =
                  CountDocs(LAMBDA x : x.projectId = d.projectId /\ x.phase = d.phase)
             /\ \E k \in 1..Len(hn.children) :
                  LET dn == hn.children[k] IN
                  /\ dn.id = d.projectId \o <<Dash>> \o d.phase \o <<Dash>> \o d.discipline
                  /\ dn.name = d.discipline
                  /\ dn.documentCount =
                       CountDocs(LAMBDA x : /\ x.projectId = d.projectId
                                            /\ x.phase = d.phase
                                            /\ x.discipline = d.discipline)

\* a document of the unknown project 'ext' between two documents of a known one
C14_Witness ==
  /\ documents = <<Doc1, Doc4, Doc2>>
  /\ Len(root.children) = 2
  /\ root.children[2].id = ProjExt
  /\ root.children[2].name = S_UnknownProject

\* the ids of the given nodes and of all nodes below them, in depth-first order
RECURSIVE nodeIds(_)
nodeIds(nodes) ==
  IF nodes = << >>
  THEN << >>
  ELSE <<Head(nodes).id>> \o nodeIds(Head(nodes).children) \o nodeIds(Tail(nodes))

NoRepeat(seq) == \A i, j \in 1..Len(seq) : i # j => seq[i] # seq[j]

\* the ids of sibling nodes differ, at every level
RECURSIVE SiblingIdsDistinct(_)
SiblingIdsDistinct(nodes) ==
  /\ NoRepeat([i \in 1..Len(nodes) |-> nodes[i].id])
  /\ \A i \in 1..Len(nodes) : SiblingIdsDistinct(nodes[i].children)

\* C15: all node ids of the built tree are pairwise distinct (root "all",
\* project nodes projectId, phase nodes projectId-phase, discipline nodes
\* projectId-phase-discipline), so in particular no two siblings share an id.
C15_NodeIdsDistinct ==
  /\ NoRepeat(nodeIds(folderTree))
  /\ SiblingIdsDistinct(folderTree)

\* C16: in every reachable state, after any sequence of document add/delete,
\* navigation and search-keystroke events, the folder tree shown is the tree of
\* the current collection and the visible documents are the filter applied to
\* the current collection, path and query: nothing stale is ever shown.
C16_NothingStale ==
  /\ folderTree = buildTree(documents)
  /\ filteredDocuments = applyFilter(documents, selectedPath, searchQuery)

\* a restricted path and a query are in force and the collection is not the
\* one the component could have been mounted with them
C16_Witness ==
  /\ selectedPath = <<Proj1 \o <<Dash>> \o Design>>
  /\ searchQuery = Q_wiring
  /\ documents = <<Doc2, Doc6, Doc3>>
  /\ filteredDocuments = <<Doc6>>
  /\ Len(root.children[1].children) = 2

\* the ids from the root down to the discipline node a document resolves into
DocChain(d) ==
  << S_all,
     d.projectId,
     d.projectId \o <<Dash>> \o d.phase,
     d.projectId \o <<Dash>> \o d.phase \o <<Dash>> \o d.discipline >>

\* the document lies below the node reached by the path of ids
RootedAt(d, path) ==
  Len(path) <= 4 /\ SubSeq(DocChain(d), 1, Len(path)) = path

\* the documentCount of the node reached by a path of ids; paths are those of nodePaths
RECURSIVE countAt(_, _)
countAt(nodes, path) ==
  LET i == FirstIndex({k \in 1..Len(nodes) : nodes[k].id = Head(path)})
  IN  IF Len(path) = 1
      THEN nodes[i].documentCount
      ELSE countAt(nodes[i].children, Tail(path))

\* C17: when a node of the folder tree is selected by a click (the path is the
\* list of ids from the root to the node) and the query is empty, the visible
\* documents are exactly the documents rooted at that node, and their number
\* is the node's documentCount.
C17_SelectedNodeShowsItsDocuments ==
  (searchQuery = << >> /\ selectedPath \in nodePaths(folderTree, << >>)) =>
    /\ filteredDocuments = DocsWhere(LAMBDA d : RootedAt(d, selectedPath))
    /\ Len(filteredDocuments) = countAt(folderTree, selectedPath)

\* the position of the first document of the collection that satisfies P
FirstDocWhere(P(_)) == FirstIndex({n \in 1..Len(documents) : P(documents[n])})

\* C18: the children of the root, of every project node and of every phase
\* node are ordered by first appearance: child A precedes child B exactly when
\* the first document resolving into A comes before the first one resolving into B.
C18_ChildrenInFirstSeenOrder ==
  /\ \A a, b \in 1..Len(root.children) :
       a < b <=>
         FirstDocWhere(LAMBDA d : d.projectId = root.children[a].projectId)
           < FirstDocWhere(LAMBDA d : d.projectId = root.children[b].projectId)
  /\ \A i \in 1..Len(root.children) :
       LET pn == root.children[i] IN
       /\ \A a, b \in 1..Len(pn.children) :
            a < b <=>
              FirstDocWhere(LAMBDA d : /\ d.projectId = pn.projectId
                                       /\ d.phase = pn.children[a].phase)
                < FirstDocWhere(LAMBDA d : /\ d.projectId = pn.projectId
                                           /\ d.phase = pn.children[b].phase)
       /\ \A j \in 1..Len(pn.children) :
            LET hn == pn.children[j] IN
            \A a, b \in 1..Len(hn.children) :
              a < b <=>
                FirstDocWhere(LAMBDA d : /\ d.projectId = pn.projectId
                                         /\ d.phase = hn.phase
                                         /\ d.discipline = hn.children[a].discipline)
                  < FirstDocWhere(LAMBDA d : /\ d.projectId = pn.projectId
                                             /\ d.phase = hn.phase
                                             /\ d.discipline = hn.children[b].discipline)

\* the unknown project first, then proj-1 with Execution seen before Design
C18_Witness ==
  /\ documents = <<Doc4, Doc2, Doc1>>
  /\ Len(root.children) = 2
  /\ root.children[1].id = ProjExt
  /\ root.children[2].children[1].name = Execution
  /\ root.children[2].children[2].name = Design

\* C19: the tree is a strict four-level hierarchy: the root's children are all
\* project nodes, a project node's children all phase nodes, a phase node's
\* children all discipline nodes, and a discipline node has no children; no
\* node has type file and no document is stored in the tree.
C19_StrictFourLevels ==
  /\ Len(folderTree) = 1
  /\ \A i \in 1..Len(root.children) :
       LET pn == root.children[i] IN
       /\ pn.type = "project"
       /\ \A j \in 1..Len(pn.children) :
            LET hn == pn.children[j] IN
            /\ hn.type = "phase"
            /\ \A k \in 1..Len(hn.children) :
                 LET dn == hn.children[k] IN
                 /\ dn.type = "discipline"
                 /\ dn.children = << >>

\* all four levels are populated, two nodes at each level below the root
C19_Witness ==
  /\ documents = <<Doc1, Doc3, Doc4>>
  /\ Len(root.children) = 2
  /\ Len(root.children[1].children) = 1
  /\ Len(root.children[1].children[1].children) = 2
  /\ root.children[1].children[1].children[2].children = << >>

\* the documentCount of the node a path of ids reaches, 0 when there is no such node
countOrZero(tree, path) ==
  IF path \in nodePaths(tree, << >>) THEN countAt(tree, path) ELSE 0

\* C20: appending one document never removes a node or lowers a documentCount;
\* it raises by exactly 1 the count of the root and of the project, phase and
\* discipline nodes the document resolves into (created with count 1 when
\* absent) and leaves every other node's count unchanged.
C20_AppendIsMonotonic ==
  [][ (\E doc \in DocUniverse : documents' = Append(documents, doc)) =>
        LET doc == documents'[Len(documents')] IN
        /\ \A path \in nodePaths(folderTree, << >>) :
             /\ path \in nodePaths(folderTree', << >>)
             /\ countAt(folderTree', path) >= countAt(folderTree, path)
        /\ \A k \in 1..4 :
             SubSeq(DocChain(doc), 1, k) \in nodePaths(folderTree', << >>)
        /\ \A path \in nodePaths(folderTree', << >>) :
             countAt(folderTree', path) =
               countOrZero(folderTree, path) + (IF RootedAt(doc, path) THEN 1 ELSE 0)
    ]_vars

\* after the third document the Civil node of proj-1/Design counts two
\* documents and the Execution node still one
C20_Witness ==
  /\ documents = <<Doc1, Doc2, Doc6>>
  /\ countAt(folderTree, DocChain(Doc6)) = 2
  /\ countAt(folderTree, SubSeq(DocChain(Doc2), 1, 3)) = 1
  /\ root.documentCount = 3
(***************************************************************************)
(* Properties of the breadcrumb and of navigation.                         *)
(***************************************************************************)
\* the nodes of a forest, a node before its children and its children before
\* its next sibling
RECURSIVE preorder(_)
preorder(nodes) ==
  IF nodes = << >>
  THEN << >>
  ELSE <<Head(nodes)>> \o preorder(Head(nodes).children) \o preorder(Tail(nodes))

\* the name of the first node with the given id in that order, the id itself
\* when no node has it
NameOrId(id) ==
  LET flat == preorder(folderTree)
      k == FirstIndex({i \in 1..Len(flat) : flat[i].id = id})
  IN  IF k = 0 THEN id ELSE flat[k].name

OneLabelPerId ==
  /\ Len(breadcrumbPath) = Len(selectedPath)
  /\ \A i \in 1..Len(selectedPath) : breadcrumbPath[i] = NameOrId(selectedPath[i])

\* C21 as stated: the breadcrumb shows one label per id of the selected path,
\* the name of the first node with that id in depth-first order, or the raw
\* id when no node has it.
C21_OneLabelPerId == OneLabelPerId

\* C21: when the first id of the selected path is not "all", the breadcrumb
\* shows one label per id of the path, the name of the first node with that id
\* in depth-first order, or the raw id when no node has it; when the first id
\* is "all", the breadcrumb is empty.
C21_LabelsUnlessPathStartsAtRoot ==
  IF selectedPath[1] = S_all THEN breadcrumbPath = << >> ELSE OneLabelPerId

\* a path of an id of no node followed by the id of a project in the tree
C21_Witness ==
  /\ selectedPath = <<IdNoSuch, Proj1>>
  /\ breadcrumbPath = <<IdNoSuch, <<"Z", "o", "n", "e", " ", "A", " ", "R", "o", "a", "d">> >>
\* the paths a navigation event can pass in the current state: the paths
\* given to onPathChange, the root, and the prefixes the address bar goes to
PathsPassed ==
  EventPaths \cup {<<S_all>>} \cup {slice(selectedPath, i) : i \in 1..Len(breadcrumbPath)}

\* C22: the selected path is ["all"] on mount; an event that changes it is a
\* navigation event, which puts exactly the path it was passed and changes
\* nothing else of the state; a search keystroke, a view-mode change, opening
\* or closing the context menu, and adding or deleting a document leave the
\* path as it is, and a search keystroke changes only the search query.
C22_PathChangesOnlyByNavigation ==
  /\ selectedPath = <<S_all>>
  /\ searchQuery = << >>
  /\ [][ /\ selectedPath' # selectedPath =>
              /\ selectedPath' \in PathsPassed
              /\ UNCHANGED <<searchQuery, viewMode, contextMenu, documents>>
         /\ searchQuery' # searchQuery =>
              UNCHANGED <<selectedPath, viewMode, contextMenu, documents, folderTree>>
         /\ (viewMode' # viewMode \/ contextMenu' # contextMenu \/ documents' # documents) =>
              UNCHANGED <<selectedPath, searchQuery>>
       ]_vars

\* every kind of event has happened
C22_Witness ==
  /\ selectedPath = <<IdNoSuch, Proj1>>
  /\ searchQuery = Q_civil
  /\ viewMode = "grid"
  /\ contextMenu # Null
  /\ Len(documents) = 2
(***************************************************************************)
(* Properties of the filter at the edges of its input.                     *)
(***************************************************************************)
\* the id made of the first four tokens of an id of more than four
FirstFourTokens(id) == SubSeq(id, 1, DashAt(id, 4) - 1)

\* C23: for a path id of more than four dash-delimited tokens, the tokens
\* past the fourth restrict nothing: the documents shown are those shown for
\* the id made of the first four tokens, that is, with an empty query, the
\* documents of the project, phase and discipline these tokens name, and no
\* error is raised.
C23_TokensPastFourthIgnored ==
  NumTokens(pathId0) > 4 =>
    /\ error = "none"
    /\ filteredDocuments = applyFilter(documents, <<FirstFourTokens(pathId0)>>, searchQuery)
    /\ searchQuery = << >> =>
         filteredDocuments =
           DocsWhere(LAMBDA d : /\ d.projectId = Token(pathId0, 1) \o <<Dash>> \o Token(pathId0, 2)
                                /\ d.phase = Token(pathId0, 3)
                                /\ d.discipline = Token(pathId0, 4))

\* ['proj-1-Design-Civil-x'] shows the two documents of proj-1/Design/Civil
C23_Witness ==
  /\ selectedPath = <<IdFiveTokens>>
  /\ searchQuery = << >>
  /\ documents = <<Doc1, Doc3, Doc6>>
  /\ filteredDocuments = <<Doc1, Doc6>>
\* the string has a space in it
HasSpace(s) == \E i \in 1..Len(s) : s[i] = " "

\* a space occurs in the name, a tag, the category or the description of d
SpaceInSomeField(d) ==
  \/ HasSpace(d.name)
  \/ \E i \in 1..Len(d.tags) : HasSpace(d.tags[i])
  \/ HasSpace(d.category)
  \/ (d.description # Undefined /\ HasSpace(d.description))

\* C24: a query of one space is a query like any other: the search step runs
\* and keeps exactly the path-filtered documents with a space in their name,
\* a tag, their category or their description; it is not the empty query,
\* which keeps them all.
C24_BlankQueryIsLiteral ==
  searchQuery = Q_space =>
    filteredDocuments =
      SelectSeq(pathFiltered, LAMBDA d : SpaceInSomeField(d))

\* the query " " drops the one document without a space in any field
C24_Witness ==
  /\ searchQuery = Q_space
  /\ selectedPath = <<S_all>>
  /\ documents = <<Doc1, Doc5, Doc3>>
  /\ filteredDocuments = <<Doc1, Doc3>>
\* C25: building the tree and filtering leave their inputs as they were.  A
\* step in which the filter ran again for a new path or a new query leaves the
\* collection (members, order, fields) and the other of the two unchanged; a
\* step in which the tree and the filter ran again for a changed collection
\* leaves the path and the query unchanged, and the collection is exactly what
\* the store made of it: the old one with one document appended or removed.
C25_InputsLeftUnchanged ==
  [][ /\ selectedPath' # selectedPath => UNCHANGED <<documents, searchQuery>>
      /\ searchQuery' # searchQuery => UNCHANGED <<documents, selectedPath>>
      /\ filteredDocuments' # filteredDocuments =>
           \/ UNCHANGED documents
           \/ UNCHANGED <<selectedPath, searchQuery>>
      /\ documents' # documents =>
           /\ UNCHANGED <<selectedPath, searchQuery>>
           /\ \/ \E doc \in DocUniverse : documents' = Append(documents, doc)
              \/ \E doc \in DocUniverse :
                   documents' = SelectSeq(documents, LAMBDA d : d.id # doc.id)
    ]_vars

\* a path and a query that together keep one document of three
C25_Witness ==
  /\ selectedPath = <<Proj1 \o <<Dash>> \o Design>>
  /\ searchQuery = Q_struct
  /\ documents = <<Doc3, Doc1, Doc2>>
  /\ filteredDocuments = <<Doc1>>
  /\ folderTree = buildTree(<<Doc3, Doc1, Doc2>>)
\* C26: the selected path is never empty: from ["all"], clicks on tree nodes
\* and on the address bar (its root gives ["all"], its item i > 0 the first i
\* ids of the path) always leave at least one id, so the filter always has a
\* first id to inspect and never throws.
C26_PathNeverEmpty ==
  /\ Len(selectedPath) >= 1
  /\ error = "none"

\* a click on a discipline node: the path from the root has four ids
C26_Witness ==
  /\ Len(selectedPath) = 4
  /\ selectedPath \in nodePaths(folderTree, << >>)
  /\ breadcrumbPath = << >>
\* C27: the last id of the selected path is the id of a node of the current
\* folder tree: the selection never stays on a node whose documents are gone.
C27_SelectionNeverDangles ==
  \E i \in 1..Len(preorder(folderTree)) :
    preorder(folderTree)[i].id = selectedPath[Len(selectedPath)]
(***************************************************************************)
(* The documents page (src/src/pages/EDMS.tsx): a table of the store's     *)
(* documents, filtered by search, status and type, shown ten to a page.    *)
(* Of a Document only the fields the page reads or writes are kept.        *)
(***************************************************************************)
\* line 23
itemsPerPage == 10

\* Document['status'] and Document['type'] as the selects offer them (lines 155-175)
Draft == <<"D", "r", "a", "f", "t">>
Approved == <<"A", "p", "p", "r", "o", "v", "e", "d">>
Drawing == <<"D", "r", "a", "w", "i", "n", "g">>
Other == <<"O", "t", "h", "e", "r">>
Uploaded == <<"U", "p", "l", "o", "a", "d", "e", "d">>

\* the permission strings the page asks for (lines 86, 118)
EdmsUpload == "edms:upload"
EdmsDelete == "edms:delete"

\* the i-th document the store holds when the page mounts
MockDocument(i) ==
  [id |-> <<"mock", i>>,
   name |-> IF i % 2 = 0 THEN <<"M", "a", "p">> ELSE <<"P", "l", "a", "n">>,
   type |-> Drawing,
   category |-> <<"S", "i", "t", "e">>,
   status |-> IF i % 3 = 0 THEN Draft ELSE Approved]

\* the store on mount: a full page of documents
MockDocuments == [i \in 1..itemsPerPage |-> MockDocument(i)]

\* the files a user uploads
Files == {[name |-> <<"u", "p", ".", "p", "d", "f">>, size |-> 1]}

\* the most uploads and the most deletions considered
MaxUploads == 2
MaxDeletes == 2

\* useAuth().hasPermission
hasPermission(permission) == permission \in permissions

\* lines 51-59: the filteredDocuments memo of the page
pageFilteredDocuments ==
  SelectSeq(pageDocuments, LAMBDA doc :
    LET matchesSearchPage ==
          \/ includes(toLowerCase(doc.name), toLowerCase(pageSearchQuery))
          \/ includes(toLowerCase(doc.category), toLowerCase(pageSearchQuery))
        matchesStatus == statusFilter = S_all \/ doc.status = statusFilter
        matchesType == typeFilter = S_all \/ doc.type = typeFilter
    IN  matchesSearchPage /\ matchesStatus /\ matchesType)

\* line 62: Math.ceil(filteredDocuments.length / itemsPerPage)
totalPages == (Len(pageFilteredDocuments) + itemsPerPage - 1) \div itemsPerPage

\* lines 63-66: slice(start, start + itemsPerPage); past the end the slice is empty
paginatedDocuments ==
  LET start == (currentPage - 1) * itemsPerPage
      n == Len(pageFilteredDocuments)
  IN  IF start >= n THEN << >>
      ELSE SubSeq(pageFilteredDocuments, start + 1,
                  IF start + itemsPerPage < n THEN start + itemsPerPage ELSE n)

\* the documents deleted since the page mounted
deletedSoFar == itemsPerPage + now - Len(pageDocuments)

\* the page mounts (lines 18-22) over the store's documents, for a user whose
\* role carries some of the two permissions
InitPage ==
  /\ pageDocuments = MockDocuments
  /\ pageSearchQuery = << >>
  /\ statusFilter = S_all
  /\ typeFilter = S_all
  /\ currentPage = 1
  /\ isUploadModalOpen = FALSE
  /\ permissions \in {{EdmsUpload, EdmsDelete}, {EdmsUpload}}
  /\ toast = "none"
  /\ now = 0
  /\ documents = << >>
  /\ selectedPath = <<S_all>>
  /\ searchQuery = << >>
  /\ folderTree = buildTree(<< >>)
  /\ filteredDocuments = << >>
  /\ error = "none"
  /\ viewMode = "list"
  /\ contextMenu = Null
  /\ modalAtRest

\* the search box (lines 138-141)
onSearchInput(value) ==
  /\ pageSearchQuery' = value
  /\ currentPage' = 1
  /\ UNCHANGED <<pageDocuments, statusFilter, typeFilter, isUploadModalOpen, permissions, toast, now>>
  /\ UNCHANGED <<explorerVars, modalVars>>

\* the status select (lines 148-151)
onStatusSelect(value) ==
  /\ statusFilter' = value
  /\ currentPage' = 1
  /\ UNCHANGED <<pageDocuments, pageSearchQuery, typeFilter, isUploadModalOpen, permissions, toast, now>>
  /\ UNCHANGED <<explorerVars, modalVars>>

\* the type select (lines 163-166)
onTypeSelect(value) ==
  /\ typeFilter' = value
  /\ currentPage' = 1
  /\ UNCHANGED <<pageDocuments, pageSearchQuery, statusFilter, isUploadModalOpen, permissions, toast, now>>
  /\ UNCHANGED <<explorerVars, modalVars>>

\* the pagination bar is rendered when the page shown is not empty and there
\* is more than one page (lines 186, 278)
paginationShown == Len(paginatedDocuments) # 0 /\ totalPages > 1

\* the Previous button (lines 286-293)
onPrevious ==
  /\ paginationShown
  /\ currentPage # 1
  /\ currentPage' = IF currentPage - 1 > 1 THEN currentPage - 1 ELSE 1
  /\ UNCHANGED <<pageDocuments, pageSearchQuery, statusFilter, typeFilter,
                 isUploadModalOpen, permissions, toast, now>>
  /\ UNCHANGED <<explorerVars, modalVars>>

\* the Next button (lines 297-304)
onNext ==
  /\ paginationShown
  /\ currentPage # totalPages
  /\ currentPage' = IF totalPages < currentPage + 1 THEN totalPages ELSE currentPage + 1
  /\ UNCHANGED <<pageDocuments, pageSearchQuery, statusFilter, typeFilter,
                 isUploadModalOpen, permissions, toast, now>>
  /\ UNCHANGED <<explorerVars, modalVars>>

\* useMockData().addDocument and deleteDocument on the store the page reads
storeAdd(docs, doc) == Append(docs, doc)

storeDelete(docs, id) == SelectSeq(docs, LAMBDA d : d.id # id)

\* handleUpload (lines 68-83).  The id is `doc-${Date.now()}` (line 70): the
\* clock has moved on since the upload before, so it is a new id.
newDoc(file) ==
  [id |-> <<"doc", now + 1>>, name |-> file.name, type |-> Other,
   category |-> Uploaded, status |-> Draft]

handleUpload(file) ==
      /\ now < MaxUploads
      /\ now' = now + 1
      /\ pageDocuments' = storeAdd(pageDocuments, newDoc(file))
      /\ UNCHANGED <<pageSearchQuery, statusFilter, typeFilter, currentPage,
                     isUploadModalOpen, permissions, toast>>
      /\ UNCHANGED <<explorerVars, modalVars>>

\* handleDelete without the test of the permission
handleDelete_noCheck(id) ==
  /\ deletedSoFar < MaxDeletes
  /\ pageDocuments' = storeDelete(pageDocuments, id)
  /\ toast' = "Document deleted"
  /\ UNCHANGED <<pageSearchQuery, statusFilter, typeFilter, currentPage,
                 isUploadModalOpen, permissions, now>>
  /\ UNCHANGED <<explorerVars, modalVars>>

\* handleDelete (lines 85-96)
handleDelete(id) ==
  /\ deletedSoFar < MaxDeletes
  /\ IF ~hasPermission(EdmsDelete)
     THEN /\ toast' = "Permission Denied"
          /\ UNCHANGED pageDocuments
     ELSE /\ pageDocuments' = storeDelete(pageDocuments, id)
          /\ toast' = "Document deleted"
  /\ UNCHANGED <<pageSearchQuery, statusFilter, typeFilter, currentPage,
                 isUploadModalOpen, permissions, now>>
  /\ UNCHANGED <<explorerVars, modalVars>>

\* the Upload button is there for a user who may upload (lines 118-123); the
\* modal it opens hands the chosen file to handleUpload (line 316)
uploadFromModal(file) ==
  /\ hasPermission(EdmsUpload)
  /\ handleUpload(file)

\* the Delete button of a row of the page shown, there for a user who may
\* delete (lines 216, 258-268)
clickDelete(doc) ==
  /\ hasPermission(EdmsDelete)
  /\ handleDelete(doc.id)

\* what is typed and selected
PageQueries == {<< >>, <<"u", "p">>}
StatusChoices == {S_all, Draft}
TypeChoices == {S_all, Other}

\* the page as its user drives it
NextPage ==
  \/ \E value \in PageQueries : onSearchInput(value)
  \/ \E value \in StatusChoices : onStatusSelect(value)
  \/ \E value \in TypeChoices : onTypeSelect(value)
  \/ onPrevious
  \/ onNext
  \/ \E file \in Files : uploadFromModal(file)
  \/ \E i \in 1..Len(paginatedDocuments) : clickDelete(paginatedDocuments[i])

SpecPage == InitPage /\ [][NextPage]_vars

\* the two handlers that write to the store, called for any user and any
\* document of the store
NextPageHandlers ==
  \/ \E file \in Files : handleUpload(file)
  \/ \E i \in 1..Len(pageDocuments) : handleDelete(pageDocuments[i].id)

SpecPageHandlers == InitPage /\ [][NextPageHandlers]_vars
(***************************************************************************)
(* The upload modal (src/unnamed/part_002), mounted by the documents page  *)
(* with isOpen = isUploadModalOpen, onClose = () =>                        *)
(* setIsUploadModalOpen(false) and onUpload = handleUpload (EDMS.tsx:      *)
(* 313-317).  Every call of handleFileSelect starts an interval, awaits    *)
(* onUpload and then sets a timer; `calls` keeps, for each call, how far   *)
(* it has come and whether its interval is still set.                      *)
(***************************************************************************)
\* the Upload button of the page (EDMS.tsx:118-123)
openUploadModal ==
  /\ hasPermission(EdmsUpload)
  /\ ~isUploadModalOpen
  /\ isUploadModalOpen' = TRUE
  /\ UNCHANGED <<pageDocuments, pageSearchQuery, statusFilter, typeFilter, currentPage,
                 permissions, toast, now>>
  /\ UNCHANGED <<explorerVars, modalVars>>

\* the drop zone is rendered while the modal is open and no file is chosen
\* (lines 102, 135)
dropZoneShown == isUploadModalOpen /\ uploadedFile = NoFile

\* handleDragEnter (lines 24-28)
handleDragEnter ==
  /\ dropZoneShown
  /\ isDragging' = TRUE
  /\ UNCHANGED <<uploadProgress, isUploading, uploadedFile, calls>>
  /\ UNCHANGED <<explorerVars, pageVars>>

\* handleDragLeave (lines 30-34)
handleDragLeave ==
  /\ dropZoneShown
  /\ isDragging' = FALSE
  /\ UNCHANGED <<uploadProgress, isUploading, uploadedFile, calls>>
  /\ UNCHANGED <<explorerVars, pageVars>>

\* handleFileSelect up to its await (lines 52-69)
handleFileSelect(file) ==
  /\ Len(calls) < MaxUploads
  /\ uploadedFile' = file
  /\ isUploading' = TRUE
  /\ uploadProgress' = 0
  /\ calls' = Append(calls, [file |-> file, pc |-> "awaiting", interval |-> TRUE])

\* handleDrop (lines 41-50) with one file dropped
handleDrop(file) ==
  /\ dropZoneShown
  /\ isDragging' = FALSE
  /\ handleFileSelect(file)
  /\ UNCHANGED <<explorerVars, pageVars>>

\* handleFileInputChange (lines 87-92) with one file picked
handleFileInputChange(file) ==
  /\ dropZoneShown
  /\ handleFileSelect(file)
  /\ UNCHANGED isDragging
  /\ UNCHANGED <<explorerVars, pageVars>>

\* the interval of call k fires (lines 58-66)
intervalFires(k) ==
  /\ calls[k].interval
  /\ IF uploadProgress >= 90
     THEN /\ uploadProgress' = 90
          /\ calls' = [calls EXCEPT ![k].interval = FALSE]
     ELSE /\ uploadProgress' = uploadProgress + 10
          /\ UNCHANGED calls
  /\ UNCHANGED <<isDragging, isUploading, uploadedFile>>
  /\ UNCHANGED <<explorerVars, pageVars>>

\* onUpload of call k has resolved: handleUpload has added the document
\* (EDMS.tsx:68-83), and handleFileSelect goes on to its timer (lines 70-77)
uploadResolves(k) ==
  /\ calls[k].pc = "awaiting"
  /\ now' = now + 1
  /\ pageDocuments' = storeAdd(pageDocuments, newDoc(calls[k].file))
  /\ uploadProgress' = 100
  /\ toast' = "File uploaded"
  /\ calls' = [calls EXCEPT ![k].interval = FALSE, ![k].pc = "timer"]
  /\ UNCHANGED <<isDragging, isUploading, uploadedFile>>
  /\ UNCHANGED <<pageSearchQuery, statusFilter, typeFilter, currentPage,
                 isUploadModalOpen, permissions>>
  /\ UNCHANGED explorerVars

\* handleClose (lines 94-100)
handleClose ==
  /\ uploadedFile' = NoFile
  /\ uploadProgress' = 0
  /\ isUploading' = FALSE
  /\ isDragging' = FALSE
  /\ isUploadModalOpen' = FALSE
  /\ UNCHANGED <<pageDocuments, pageSearchQuery, statusFilter, typeFilter, currentPage,
                 permissions, toast, now>>
  /\ UNCHANGED explorerVars

\* a click on the backdrop or on the X of the open modal (lines 113, 127)
clickClose ==
  /\ isUploadModalOpen
  /\ handleClose
  /\ UNCHANGED calls

\* the timer of call k fires, 1.5 s after its upload (lines 75-77)
timerFires(k) ==
  /\ calls[k].pc = "timer"
  /\ handleClose
  /\ calls' = [calls EXCEPT ![k].pc = "done"]

\* the page with its modal: opening it, choosing files, and what the browser
\* runs later
NextModal ==
  \/ openUploadModal
  \/ handleDragEnter
  \/ handleDragLeave
  \/ \E file \in Files : handleDrop(file)
  \/ \E file \in Files : handleFileInputChange(file)
  \/ \E k \in 1..Len(calls) : intervalFires(k)
  \/ \E k \in 1..Len(calls) : uploadResolves(k)
  \/ \E k \in 1..Len(calls) : timerFires(k)
  \/ clickClose

SpecModal == InitPage /\ [][NextModal]_vars

(***************************************************************************)
(* Properties of the documents page.                                       *)
(***************************************************************************)
\* C28: on the documents page the current page is between 1 and
\* max(1, totalPages), where totalPages = ceil(filtered count / 10), so that
\* the page shown is not empty when the filtered list is not.
C28_PageWithinRange ==
  /\ currentPage >= 1
  /\ currentPage <= (IF totalPages > 1 THEN totalPages ELSE 1)
  /\ Len(pageFilteredDocuments) > 0 => Len(paginatedDocuments) > 0

\* C29: a delete request of a user without 'edms:delete' leaves the store as
\* it is and raises the permission-denied toast; the store loses a document
\* only in a step of a user who holds the permission.
C29_DeleteNeedsPermission ==
  [][ /\ Len(pageDocuments') < Len(pageDocuments) => hasPermission(EdmsDelete)
      /\ ~hasPermission(EdmsDelete) =>
           \A i \in 1..Len(pageDocuments) :
             handleDelete(pageDocuments[i].id) =>
               /\ pageDocuments' = pageDocuments
               /\ toast' = "Permission Denied"
      /\ (toast' # toast /\ toast' = "Document deleted") => hasPermission(EdmsDelete)
    ]_vars

\* a user who may upload but not delete has uploaded a document and asked
\* for a deletion
C29_Witness ==
  /\ ~hasPermission(EdmsDelete)
  /\ toast = "Permission Denied"
  /\ Len(pageDocuments) = itemsPerPage + 1
(***************************************************************************)
(* Properties of the upload modal.                                         *)
(***************************************************************************)
\* C30: the close scheduled 1.5 s after a successful upload touches only the
\* session that scheduled it: when the timer of a call fires after the user
\* has closed the modal, opened it again and chosen a new file (a later call
\* exists), the new session's file, progress and uploading flag stay as they
\* are and the modal stays open.
C30_StaleTimerHarmless ==
  [][ \A k \in 1..Len(calls) :
        (k < Len(calls) /\ calls[k].pc = "timer" /\ calls'[k].pc = "done") =>
          UNCHANGED <<uploadedFile, uploadProgress, isUploading, isUploadModalOpen>>
    ]_vars

====
